---- MODULE Spec2Model ----
(***************************************************************************)
(* Solana DeFi adoption dashboard (src/app.py): the TVL fetcher, the       *)
(* snapshot builder, the metrics engine and the Streamlit script that      *)
(* drives them, as a state machine.                                        *)
(*                                                                         *)
(* float64 values are modelled as extended rationals: a finite value n/d,  *)
(* +inf / -inf, or NaN, with the IEEE-754 rules for the special values.    *)
(* The square root inside rolling(7).std() is taken in fixed point         *)
(* (PctScale steps per unit).                                              *)
(***************************************************************************)
EXTENDS Integers, Sequences, FiniteSets, TLC

\* ------------------------------------------------------------------------
\* Bounds of the model
\* ------------------------------------------------------------------------
\* Longest series the provider returns (the shortest has MinObs - 1 points).
MaxLen == 14
\* An unsorted series is the ascending one listed from position RotateBy + 1.
RotateBy == 1

\* ------------------------------------------------------------------------
\* Program constants
\* ------------------------------------------------------------------------
SOLANA_PROTOCOLS ==
    << [name |-> "Raydium",  slug |-> "raydium"],
       [name |-> "Orca",     slug |-> "orca"],
       [name |-> "Jupiter",  slug |-> "jupiter"],
       [name |-> "Marinade", slug |-> "marinade"],
       [name |-> "Drift",    slug |-> "drift"] >>

NumProtocols == Len(SOLANA_PROTOCOLS)
Slugs == { SOLANA_PROTOCOLS[i].slug : i \in 1..NumProtocols }

\* len(hist) < 14
MinObs == 14
\* rolling(7)
Window == 7
\* fixed-point resolution used for pct_change and std
PctScale == 100

\* ------------------------------------------------------------------------
\* float64 as extended rationals
\* ------------------------------------------------------------------------
Abs(x) == IF x < 0 THEN -x ELSE x
Sign(x) == IF x < 0 THEN -1 ELSE 1

RECURSIVE GCD(_, _)
GCD(a, b) == IF b = 0 THEN a ELSE GCD(b, a % b)

NaN == [k |-> "nan", n |-> 0, d |-> 0]
Inf(s) == [k |-> "inf", n |-> s, d |-> 0]
Fin(n, d) ==
    LET g == GCD(Abs(n), Abs(d))
    IN  [k |-> "fin", n |-> (Sign(d) * n) \div g, d |-> Abs(d) \div g]
Num(i) == Fin(i, 1)

IsNaN(x) == x.k = "nan"

FNeg(x) ==
    CASE x.k = "nan" -> NaN
      [] x.k = "inf" -> Inf(-x.n)
      [] OTHER       -> Fin(-x.n, x.d)

FAdd(x, y) ==
    CASE x.k = "nan" \/ y.k = "nan" -> NaN
      [] x.k = "inf" /\ y.k = "inf" -> IF x.n = y.n THEN x ELSE NaN
      [] x.k = "inf"                -> x
      [] y.k = "inf"                -> y
      [] OTHER                      -> Fin(x.n * y.d + y.n * x.d, x.d * y.d)

FSub(x, y) == FAdd(x, FNeg(y))

FMul(x, y) ==
    CASE x.k = "nan" \/ y.k = "nan" -> NaN
      [] x.k = "inf" /\ y.k = "inf" -> Inf(x.n * y.n)
      [] x.k = "inf" -> IF y.n = 0 THEN NaN ELSE Inf(x.n * Sign(y.n))
      [] y.k = "inf" -> IF x.n = 0 THEN NaN ELSE Inf(y.n * Sign(x.n))
      [] OTHER       -> Fin(x.n * y.n, x.d * y.d)

FDiv(x, y) ==
    CASE x.k = "nan" \/ y.k = "nan" -> NaN
      [] x.k = "inf" /\ y.k = "inf" -> NaN
      [] x.k = "inf" -> Inf(x.n * Sign(y.n))
      [] y.k = "inf" -> Num(0)
      [] y.n = 0     -> IF x.n = 0 THEN NaN ELSE Inf(Sign(x.n))
      [] OTHER       -> Fin(x.n * y.d * Sign(y.n), x.d * Abs(y.n))

\* x <= y; false as soon as one side is NaN
FLe(x, y) ==
    CASE x.k = "nan" \/ y.k = "nan" -> FALSE
      [] x.k = "inf" /\ y.k = "inf" -> x.n <= y.n
      [] x.k = "inf"                -> x.n < 0
      [] y.k = "inf"                -> y.n > 0
      [] OTHER                      -> x.n * y.d <= y.n * x.d

\* Series.min() / Series.max(): NaN entries are skipped; NaN when none is left
ColMin(vals) ==
    LET S == { v \in vals : ~IsNaN(v) }
    IN  IF S = {} THEN NaN ELSE CHOOSE m \in S : \A v \in S : FLe(m, v)

ColMax(vals) ==
    LET S == { v \in vals : ~IsNaN(v) }
    IN  IF S = {} THEN NaN ELSE CHOOSE m \in S : \A v \in S : FLe(v, m)

\* floor of the square root
RECURSIVE SqrtSearch(_, _, _)
SqrtSearch(x, lo, hi) ==
    IF lo >= hi THEN lo
    ELSE LET mid == (lo + hi + 1) \div 2
         IN  IF mid * mid <= x THEN SqrtSearch(x, mid, hi)
                               ELSE SqrtSearch(x, lo, mid - 1)

ISqrt(x) == SqrtSearch(x, 0, x)

\* ------------------------------------------------------------------------
\* What the data provider can answer
\* ------------------------------------------------------------------------
\* n daily points, ascending by date: first value a, last value b, c between
AscPoints(n, a, c, b) ==
    [i \in 1..n |->
        [date |-> i,
         totalLiquidityUSD |-> IF i = 1 THEN a ELSE IF i = n THEN b ELSE c]]

\* the same points listed starting from position k+1
Rotate(s, k) == SubSeq(s, k + 1, Len(s)) \o SubSeq(s, 1, k)

ProviderSeries ==
    { AscPoints(MinObs - 1, 1, 2, 2),
      AscPoints(MaxLen, 2, 2, 1),
      AscPoints(MaxLen, 0, 2, 2),
      Rotate(AscPoints(MaxLen, 1, 2, 3), RotateBy) }

Resp(net, status, json, hasTvl, isList, tvl) ==
    [net |-> net, status_code |-> status, json |-> json,
     hasTvl |-> hasTvl, isList |-> isList, tvl |-> tvl]

Responses ==
    { Resp("error", 0, "none", FALSE, FALSE, << >>),
      Resp("ok", 404, "object", FALSE, FALSE, << >>),
      Resp("ok", 200, "invalid", FALSE, FALSE, << >>),
      Resp("ok", 200, "object", FALSE, FALSE, << >>),
      Resp("ok", 200, "object", TRUE, FALSE, << >>),
      Resp("ok", 200, "object", TRUE, TRUE, << >>),
      Resp("ok", 200, "object", TRUE, TRUE, << [date |-> 1] >>),
      Resp("ok", 200, "object", TRUE, TRUE, << [totalLiquidityUSD |-> 1] >>) }
    \cup { Resp("ok", 200, "object", TRUE, TRUE, s) : s \in ProviderSeries }

\* ------------------------------------------------------------------------
\* Values
\* ------------------------------------------------------------------------
None == [kind |-> "None"]
Miss == [kind |-> "miss"]
DataFrame(rows, cols) == [kind |-> "df", rows |-> rows, cols |-> cols]

IsNone(v) == v.kind = "None"
IsDf(v) == v.kind = "df"

\* pd.to_datetime(..., unit="s")
ToDatetime(s) == [epoch_s |-> s]

Columns(points) == UNION { DOMAIN points[i] : i \in 1..Len(points) }

Returned(v) == [raised |-> FALSE, value |-> v]
Raised == [raised |-> TRUE, value |-> None]

\* the body of load_protocol_tvl, run on the provider's answer
LoadBody(r) ==
    IF r.net = "error" THEN Raised
    ELSE IF r.status_code # 200 THEN Returned(None)
    ELSE IF r.json = "invalid" THEN Raised
    ELSE IF ~r.hasTvl \/ ~r.isList THEN Returned(None)
    ELSE IF Len(r.tvl) = 0 \/ "totalLiquidityUSD" \notin Columns(r.tvl)
         THEN Returned(None)
    ELSE IF "date" \notin Columns(r.tvl) THEN Raised
    ELSE Returned(DataFrame(
            [i \in 1..Len(r.tvl) |->
                [date |-> ToDatetime(r.tvl[i].date),
                 totalLiquidityUSD |-> r.tvl[i].totalLiquidityUSD]],
            {"date", "totalLiquidityUSD"}))

\* ------------------------------------------------------------------------
\* Tables
\* ------------------------------------------------------------------------
\* pd.DataFrame(rows): the columns are the keys of the row dicts
Table(rows) == DataFrame(rows, Columns(rows))

Empty(df) == Len(df.rows) = 0

\* series.iloc[-1]
Last(s) == s[Len(s)]

\* the place of r among rows already sorted by date (ties stay behind)
RECURSIVE InsertByDate(_, _)
InsertByDate(sorted, r) ==
    IF sorted = << >> THEN << r >>
    ELSE IF Last(sorted).date.epoch_s <= r.date.epoch_s THEN Append(sorted, r)
    ELSE Append(InsertByDate(SubSeq(sorted, 1, Len(sorted) - 1), r), Last(sorted))

RECURSIVE SortRows(_)
SortRows(rows) ==
    IF rows = << >> THEN << >>
    ELSE InsertByDate(SortRows(SubSeq(rows, 1, Len(rows) - 1)), Last(rows))

\* the frame as the fetcher returned it, not sorted
SortValuesSkipped(df) == df

\* hist.sort_values("date"): a new frame, the argument is left as it was
SortValues(df) == DataFrame(SortRows(df.rows), df.cols)

\* hist["totalLiquidityUSD"].pct_change(): NaN first, then (v - prev) / prev
PctChange(rows) ==
    << NaN >> \o
    [j \in 1..(Len(rows) - 1) |->
        FDiv(FSub(Num(rows[j + 1].totalLiquidityUSD),
                  Num(rows[j].totalLiquidityUSD)),
             Num(rows[j].totalLiquidityUSD))]

\* value in fixed point
Fixed(x) == (x.n * PctScale) \div x.d

RECURSIVE SumTo(_, _, _)
SumTo(f, lo, hi) == IF lo > hi THEN 0 ELSE f[hi] + SumTo(f, lo, hi - 1)

\* rolling(7).std() at position j: NaN until the window holds 7 finite values
\* (rolling treats inf as missing), else the sample standard deviation
RollingStd(pct, j) ==
    IF j < Window THEN NaN
    ELSE LET w == SubSeq(pct, j - Window + 1, j)
         IN  IF \E q \in 1..Window : w[q].k # "fin" THEN NaN
             ELSE LET x   == [q \in 1..Window |-> Fixed(w[q])]
                      sq  == [q \in 1..Window |-> x[q] * x[q]]
                      s1  == SumTo(x, 1, Window)
                      s2  == SumTo(sq, 1, Window)
                      var == (Window * s2 - s1 * s1) \div (Window * (Window - 1))
                  IN  Fin(ISqrt(var), PctScale)

RECURSIVE FSum(_, _)
FSum(f, hi) == IF hi = 0 THEN Num(0) ELSE FAdd(FSum(f, hi - 1), f[hi])

\* hist["daily_change"].rolling(7).std().mean(): the mean skips NaN
Volatility(rows) ==
    LET pct == PctChange(rows)
        std == SelectSeq([j \in 1..Len(rows) |-> RollingStd(pct, j)],
                         LAMBDA v : ~IsNaN(v))
    IN  IF Len(std) = 0 THEN NaN
        ELSE FDiv(FSum(std, Len(std)), Num(Len(std)))

\* iloc[-1] / iloc[0] - 1
GrowthRate(rows) ==
    FSub(FDiv(Num(Last(rows).totalLiquidityUSD), Num(rows[1].totalLiquidityUSD)),
         Num(1))

\* the length test with <= in place of <
SkipInMetricsOffByOne(hist) == IsNone(hist) \/ Len(hist.rows) <= MinObs

\* hist is None or len(hist) < 14
SkipInMetrics(hist) == IsNone(hist) \/ Len(hist.rows) < MinObs

\* one protocol's row of compute_adoption_metrics
MetricsRow(p, hist) ==
    LET sorted == SortValues(hist)
    IN  [protocol |-> p.name,
         growth_rate |-> GrowthRate(sorted.rows),
         volatility |-> Volatility(sorted.rows)]

\* one protocol's row of build_protocol_snapshot
SnapshotRow(p, hist) ==
    [name |-> p.name, slug |-> p.slug, tvl |-> Last(hist.rows).totalLiquidityUSD]

\* the new row put in front of the list
SnapshotAppendFront(rows, p, hist) ==
    IF ~IsNone(hist) THEN << SnapshotRow(p, hist) >> \o rows ELSE rows

\* rows after one pass of the loop of build_protocol_snapshot
SnapshotAppend(rows, p, hist) ==
    IF ~IsNone(hist) THEN Append(rows, SnapshotRow(p, hist)) ELSE rows

\* rows after one pass of the loop of compute_adoption_metrics
MetricsAppend(rows, p, hist) ==
    IF SkipInMetrics(hist) THEN rows ELSE Append(rows, MetricsRow(p, hist))

\* (col - col.min()) / (col.max() - col.min())
MinMax(x, vals) ==
    FDiv(FSub(x, ColMin(vals)), FSub(ColMax(vals), ColMin(vals)))

\* norm_growth * 0.6 + (1 - norm_volatility) * 0.4
Score(ng, nv) ==
    FAdd(FMul(ng, Fin(6, 10)), FMul(FSub(Num(1), nv), Fin(4, 10)))

\* the three column assignments on metrics_df
AddScores(df) ==
    LET n  == Len(df.rows)
        gs == { df.rows[j].growth_rate : j \in 1..n }
        vs == { df.rows[j].volatility : j \in 1..n }
        ng == [j \in 1..n |-> MinMax(df.rows[j].growth_rate, gs)]
        nv == [j \in 1..n |-> MinMax(df.rows[j].volatility, vs)]
    IN  DataFrame(
            [j \in 1..n |->
                [protocol |-> df.rows[j].protocol,
                 growth_rate |-> df.rows[j].growth_rate,
                 volatility |-> df.rows[j].volatility,
                 norm_growth |-> ng[j],
                 norm_volatility |-> nv[j],
                 adoption_quality_score |-> Score(ng[j], nv[j])]],
            df.cols \cup {"norm_growth", "norm_volatility", "adoption_quality_score"})

\* ------------------------------------------------------------------------
\* State
\* ------------------------------------------------------------------------
VARIABLES
    pc,                 \* where the script is
    i,                  \* loop position inside a cached function being computed
    rows,               \* its local list `rows`
    tvlCache,           \* st.cache_data store of load_protocol_tvl, by slug
    snapCache,          \* st.cache_data store of build_protocol_snapshot
    metricsCache,       \* st.cache_data store of compute_adoption_metrics
    requested,          \* slugs an HTTP request has been issued for
    refetched,          \* some slug was requested a second time
    df_solana,          \* module globals of the running script
    selected_protocol,
    df_hist,
    metrics_df,
    selectShown,        \* the selectbox was rendered in an earlier run
    rendered,           \* sections this run has executed
    lastCall,           \* the latest call of load_protocol_tvl
    firstLoad,          \* what the first returning call gave, by slug
    firstMetrics        \* what the first call of compute_adoption_metrics gave

vars == << pc, i, rows, tvlCache, snapCache, metricsCache, requested,
           refetched, df_solana, selected_protocol, df_hist, metrics_df,
           selectShown, rendered, lastCall, firstLoad, firstMetrics >>

Unset == [kind |-> "unset"]
IsMiss(v) == v.kind = "miss"
NoCall == [slug |-> "", hit |-> FALSE, raised |-> FALSE, value |-> Unset]

Terminal == {"done", "stopped", "crashed"}

Init ==
    /\ pc = "start"
    /\ i = 0
    /\ rows = << >>
    /\ tvlCache = [s \in Slugs |-> Miss]
    /\ snapCache = Miss
    /\ metricsCache = Miss
    /\ requested = {}
    /\ refetched = FALSE
    /\ df_solana = Unset
    /\ selected_protocol = ""
    /\ df_hist = Unset
    /\ metrics_df = Unset
    /\ selectShown = FALSE
    /\ rendered = {}
    /\ lastCall = NoCall
    /\ firstLoad = [s \in Slugs |-> Miss]
    /\ firstMetrics = Miss

\* ------------------------------------------------------------------------
\* @st.cache_data
\* ------------------------------------------------------------------------
\* what load_protocol_tvl(slug) gives when the provider would answer r:
\* the stored value on a hit, the body's outcome on a miss
LoadResult(slug, r) ==
    IF ~IsMiss(tvlCache[slug]) THEN Returned(tvlCache[slug]) ELSE LoadBody(r)

\* the provider is asked only on a miss: the answers a call may meet
Answers(slug) ==
    IF ~IsMiss(tvlCache[slug])
    THEN { Resp("none", 0, "none", FALSE, FALSE, << >>) }
    ELSE Responses

\* a returned value is stored under its key; an exception stores nothing
CacheStore(cache, slug, res) ==
    IF res.raised THEN cache ELSE [cache EXCEPT ![slug] = res.value]

\* a store that hands out the stored object itself
StoredByReference(stored, written) == written

\* the store keeps a serialized copy: a caller writing to the object it was
\* handed leaves the stored value as it was
StoredAfterCallerWrite(stored, written) == stored

\* the bookkeeping of one call of load_protocol_tvl(slug)
CallLoad(slug, r) ==
    LET hit == ~IsMiss(tvlCache[slug])
        res == LoadResult(slug, r)
    IN  /\ requested' = IF hit THEN requested ELSE requested \cup {slug}
        /\ refetched' = (refetched \/ (~hit /\ slug \in requested))
        /\ tvlCache' = CacheStore(tvlCache, slug, res)
        /\ lastCall' = [slug |-> slug, hit |-> hit, raised |-> res.raised,
                        value |-> res.value]
        /\ firstLoad' = IF ~res.raised /\ IsMiss(firstLoad[slug])
                        THEN [firstLoad EXCEPT ![slug] = res.value]
                        ELSE firstLoad

\* ------------------------------------------------------------------------
\* The script, top to bottom
\* ------------------------------------------------------------------------
\* line 125, cached: df_solana = build_protocol_snapshot()
SnapshotHit ==
    /\ pc = "start"
    /\ ~IsMiss(snapCache)
    /\ df_solana' = snapCache
    /\ pc' = "check"
    /\ UNCHANGED << i, rows, tvlCache, snapCache, metricsCache, requested,
                    refetched, selected_protocol, df_hist, metrics_df,
                    selectShown, rendered, lastCall, firstLoad,
                    firstMetrics >>

\* line 125, not cached: the body of build_protocol_snapshot starts
SnapshotEnter ==
    /\ pc = "start"
    /\ IsMiss(snapCache)
    /\ pc' = "snapshot_loop"
    /\ i' = 1
    /\ rows' = << >>
    /\ UNCHANGED << tvlCache, snapCache, metricsCache, requested, refetched,
                    df_solana, selected_protocol, df_hist, metrics_df,
                    selectShown, rendered, lastCall, firstLoad,
                    firstMetrics >>

\* one pass of `for p in SOLANA_PROTOCOLS` in build_protocol_snapshot
SnapshotIter ==
    /\ pc = "snapshot_loop"
    /\ i <= NumProtocols
    /\ \E r \in Answers(SOLANA_PROTOCOLS[i].slug) :
        LET p   == SOLANA_PROTOCOLS[i]
            res == LoadResult(p.slug, r)
        IN  /\ CallLoad(p.slug, r)
            /\ IF res.raised
               THEN /\ pc' = "crashed"
                    /\ i' = 0
                    /\ rows' = << >>
               ELSE /\ pc' = pc
                    /\ i' = i + 1
                    /\ rows' = SnapshotAppend(rows, p, res.value)
    /\ UNCHANGED << snapCache, metricsCache, df_solana, selected_protocol,
                    df_hist, metrics_df, selectShown, rendered,
                    firstMetrics >>

\* return pd.DataFrame(rows), stored by st.cache_data
SnapshotReturn ==
    /\ pc = "snapshot_loop"
    /\ i > NumProtocols
    /\ snapCache' = Table(rows)
    /\ df_solana' = Table(rows)
    /\ pc' = "check"
    /\ i' = 0
    /\ rows' = << >>
    /\ UNCHANGED << tvlCache, metricsCache, requested, refetched,
                    selected_protocol, df_hist, metrics_df, selectShown,
                    rendered, lastCall, firstLoad, firstMetrics >>

\* the safety check without st.stop()
AfterSafetyCheckNoStop(df) == "overview"

\* where the script goes after `if df_solana.empty: st.error(...); st.stop()`
AfterSafetyCheck(df) == IF Empty(df) THEN "stopped" ELSE "overview"

\* lines 130-150: header, then the safety check
SafetyCheck ==
    /\ pc = "check"
    /\ pc' = AfterSafetyCheck(df_solana)
    /\ rendered' = rendered \cup
                    (IF Empty(df_solana) THEN {"header", "error"} ELSE {"header"})
    /\ UNCHANGED << i, rows, tvlCache, snapCache, metricsCache, requested,
                    refetched, df_solana, selected_protocol, df_hist,
                    metrics_df, selectShown, lastCall, firstLoad,
                    firstMetrics >>

\* lines 155-170: df_solana.sort_values("tvl") raises KeyError on a frame
\* without columns
Overview ==
    /\ pc = "overview"
    /\ IF "tvl" \in df_solana.cols
       THEN /\ pc' = "tvl_chart"
            /\ rendered' = rendered \cup {"overview"}
       ELSE /\ pc' = "crashed"
            /\ rendered' = rendered \cup {"overview"}
    /\ UNCHANGED << i, rows, tvlCache, snapCache, metricsCache, requested,
                    refetched, df_solana, selected_protocol, df_hist,
                    metrics_df, selectShown, lastCall, firstLoad,
                    firstMetrics >>

\* lines 175-188
TvlChart ==
    /\ pc = "tvl_chart"
    /\ pc' = "select"
    /\ rendered' = rendered \cup {"tvl_chart"}
    /\ UNCHANGED << i, rows, tvlCache, snapCache, metricsCache, requested,
                    refetched, df_solana, selected_protocol, df_hist,
                    metrics_df, selectShown, lastCall, firstLoad,
                    firstMetrics >>

\* dict(zip(df_solana["name"], df_solana["slug"]))[name]
ProtocolMap(df, name) ==
    LET J == { j \in 1..Len(df.rows) : df.rows[j].name = name }
    IN  df.rows[CHOOSE j \in J : \A q \in J : q <= j].slug

\* lines 193-202: the selectbox shows its first option until the user, having
\* seen it, picks another; then df_hist = load_protocol_tvl(slug)
Select ==
    /\ pc = "select"
    /\ \E j \in 1..Len(df_solana.rows) :
       \E r \in Answers(ProtocolMap(df_solana, df_solana.rows[j].name)) :
        LET name == df_solana.rows[j].name
            slug == ProtocolMap(df_solana, name)
            res  == LoadResult(slug, r)
        IN  /\ selectShown \/ j = 1
            /\ selected_protocol' = name
            /\ CallLoad(slug, r)
            /\ IF res.raised
               THEN /\ pc' = "crashed"
                    /\ df_hist' = df_hist
               ELSE /\ pc' = "trend"
                    /\ df_hist' = res.value
    /\ rendered' = rendered \cup {"select"}
    /\ UNCHANGED << i, rows, snapCache, metricsCache, df_solana, metrics_df,
                    selectShown, firstMetrics >>

\* df_hist["daily_change"] = ...; df_hist["rolling_volatility"] = ...
AddHistColumns(df) ==
    DataFrame(df.rows, df.cols \cup {"daily_change", "rolling_volatility"})

\* lines 207-231
Trend ==
    /\ pc = "trend"
    /\ IF IsNone(df_hist)
       THEN /\ df_hist' = df_hist
            /\ tvlCache' = tvlCache
       ELSE /\ df_hist' = AddHistColumns(df_hist)
            /\ tvlCache' =
                 LET slug == ProtocolMap(df_solana, selected_protocol)
                 IN  [tvlCache EXCEPT ![slug] =
                        StoredAfterCallerWrite(@, AddHistColumns(df_hist))]
    /\ pc' = "aqs"
    /\ rendered' = rendered \cup {"trend"}
    /\ UNCHANGED << i, rows, snapCache, metricsCache, requested, refetched,
                    df_solana, selected_protocol, metrics_df, selectShown,
                    lastCall, firstLoad, firstMetrics >>

\* lines 236-238, cached: metrics_df = compute_adoption_metrics()
MetricsHit ==
    /\ pc = "aqs"
    /\ ~IsMiss(metricsCache)
    /\ metrics_df' = metricsCache
    /\ pc' = "normalize"
    /\ rendered' = rendered \cup {"aqs"}
    /\ UNCHANGED << i, rows, tvlCache, snapCache, metricsCache, requested,
                    refetched, df_solana, selected_protocol, df_hist,
                    selectShown, lastCall, firstLoad, firstMetrics >>

\* lines 236-238, not cached: the body of compute_adoption_metrics starts
MetricsEnter ==
    /\ pc = "aqs"
    /\ IsMiss(metricsCache)
    /\ pc' = "metrics_loop"
    /\ i' = 1
    /\ rows' = << >>
    /\ rendered' = rendered \cup {"aqs", "metrics_body"}
    /\ UNCHANGED << tvlCache, snapCache, metricsCache, requested, refetched,
                    df_solana, selected_protocol, df_hist, metrics_df,
                    selectShown, lastCall, firstLoad, firstMetrics >>

\* one pass of `for p in SOLANA_PROTOCOLS` in compute_adoption_metrics
MetricsIter ==
    /\ pc = "metrics_loop"
    /\ i <= NumProtocols
    /\ \E r \in Answers(SOLANA_PROTOCOLS[i].slug) :
        LET p   == SOLANA_PROTOCOLS[i]
            res == LoadResult(p.slug, r)
        IN  /\ CallLoad(p.slug, r)
            /\ IF res.raised
               THEN /\ pc' = "crashed"
                    /\ i' = 0
                    /\ rows' = << >>
               ELSE /\ pc' = pc
                    /\ i' = i + 1
                    /\ rows' = MetricsAppend(rows, p, res.value)
    /\ UNCHANGED << snapCache, metricsCache, df_solana, selected_protocol,
                    df_hist, metrics_df, selectShown, rendered,
                    firstMetrics >>

\* return pd.DataFrame(rows), stored by st.cache_data
MetricsReturn ==
    /\ pc = "metrics_loop"
    /\ i > NumProtocols
    /\ metricsCache' = Table(rows)
    /\ metrics_df' = Table(rows)
    /\ firstMetrics' = IF IsMiss(firstMetrics) THEN Table(rows) ELSE firstMetrics
    /\ pc' = "normalize"
    /\ i' = 0
    /\ rows' = << >>
    /\ UNCHANGED << tvlCache, snapCache, requested, refetched, df_solana,
                    selected_protocol, df_hist, selectShown, rendered,
                    lastCall, firstLoad >>

\* lines 240-280: the score columns are written onto metrics_df
Normalize ==
    /\ pc = "normalize"
    /\ IF Empty(metrics_df)
       THEN /\ metrics_df' = metrics_df
            /\ metricsCache' = metricsCache
            /\ rendered' = rendered
       ELSE /\ metrics_df' = AddScores(metrics_df)
            /\ metricsCache' =
                 StoredAfterCallerWrite(metricsCache, AddScores(metrics_df))
            /\ rendered' = rendered \cup {"ranking"}
    /\ pc' = "footer"
    /\ UNCHANGED << i, rows, tvlCache, snapCache, requested, refetched,
                    df_solana, selected_protocol, df_hist, selectShown,
                    lastCall, firstLoad, firstMetrics >>

\* lines 285-301
Footer ==
    /\ pc = "footer"
    /\ pc' = "done"
    /\ rendered' = rendered \cup {"footer"}
    /\ UNCHANGED << i, rows, tvlCache, snapCache, metricsCache, requested,
                    refetched, df_solana, selected_protocol, df_hist,
                    metrics_df, selectShown, lastCall, firstLoad,
                    firstMetrics >>

\* the session runs the script again, top to bottom, with fresh globals;
\* the st.cache_data stores outlive the run
Rerun ==
    /\ pc \in Terminal
    /\ pc' = "start"
    /\ df_solana' = Unset
    /\ selected_protocol' = ""
    /\ df_hist' = Unset
    /\ metrics_df' = Unset
    /\ selectShown' = (selectShown \/ "select" \in rendered)
    /\ rendered' = {}
    /\ lastCall' = NoCall
    /\ UNCHANGED << i, rows, tvlCache, snapCache, metricsCache, requested,
                    refetched, firstLoad, firstMetrics >>

Next ==
    \/ SnapshotHit
    \/ SnapshotEnter
    \/ SnapshotIter
    \/ SnapshotReturn
    \/ SafetyCheck
    \/ Overview
    \/ TvlChart
    \/ Select
    \/ Trend
    \/ MetricsHit
    \/ MetricsEnter
    \/ MetricsIter
    \/ MetricsReturn
    \/ Normalize
    \/ Footer
    \/ Rerun

Spec == Init /\ [][Next]_vars

\* ------------------------------------------------------------------------
\* Properties
\* ------------------------------------------------------------------------
SnapshotReturned == IsDf(df_solana)
MetricsReturned == IsDf(metrics_df)
Scored == MetricsReturned /\ "norm_growth" \in metrics_df.cols

Descriptor(name) ==
    CHOOSE p \in { SOLANA_PROTOCOLS[j] : j \in 1..NumProtocols } : p.name = name

\* the observation with the greatest (least) date of a fetched series
Latest(df) ==
    CHOOSE r \in { df.rows[j] : j \in 1..Len(df.rows) } :
        \A j \in 1..Len(df.rows) : df.rows[j].date.epoch_s <= r.date.epoch_s
Earliest(df) ==
    CHOOSE r \in { df.rows[j] : j \in 1..Len(df.rows) } :
        \A j \in 1..Len(df.rows) : r.date.epoch_s <= df.rows[j].date.epoch_s

ListedUnsorted(df) ==
    \E j \in 1..(Len(df.rows) - 1) :
        df.rows[j].date.epoch_s > df.rows[j + 1].date.epoch_s

\* C1: load_protocol_tvl never propagates an exception: every call returns,
\* and no run of the script is ended by an exception.
C1_LoadNeverRaises == ~lastCall.raised /\ pc # "crashed"

\* protocols whose fetch returned a series, in the order of SOLANA_PROTOCOLS
WithSeries == SelectSeq(SOLANA_PROTOCOLS, LAMBDA p : IsDf(firstLoad[p.slug]))

\* C2: the snapshot has exactly one row per protocol whose fetch returned a
\* series, none for a protocol whose fetch returned no data, in the order of
\* SOLANA_PROTOCOLS; the metrics table has no row for a protocol without data.
C2_SnapshotRows ==
    /\ SnapshotReturned =>
        /\ Len(df_solana.rows) = Len(WithSeries)
        /\ \A j \in 1..Len(df_solana.rows) :
            /\ df_solana.rows[j].name = WithSeries[j].name
            /\ df_solana.rows[j].slug = WithSeries[j].slug
    /\ MetricsReturned =>
        \A j \in 1..Len(metrics_df.rows) :
            IsDf(firstLoad[Descriptor(metrics_df.rows[j].protocol).slug])

C2_Witness ==
    /\ pc = "done"
    /\ lastCall.slug = "drift"
    /\ IsNone(firstLoad["drift"])
    /\ IsNone(firstLoad["orca"])
    /\ Len(df_solana.rows) = 3
    /\ Len(metrics_df.rows) >= 1

\* C3: each Snapshot Row's tvl is the totalLiquidityUSD of the observation
\* with the greatest date of that protocol's series.
C3_SnapshotTvlMostRecent ==
    SnapshotReturned =>
        \A j \in 1..Len(df_solana.rows) :
            df_solana.rows[j].tvl =
                Latest(firstLoad[df_solana.rows[j].slug]).totalLiquidityUSD

\* C4: the metrics table has a row for a protocol iff its series is present
\* with at least 14 observations; a protocol with 1 to 13 observations keeps
\* its Snapshot Row.
C4_MetricsCohort ==
    MetricsReturned =>
        /\ \A j \in 1..NumProtocols :
            LET p == SOLANA_PROTOCOLS[j]
                h == firstLoad[p.slug]
            IN  /\ (\E q \in 1..Len(metrics_df.rows) :
                        metrics_df.rows[q].protocol = p.name)
                    <=> (IsDf(h) /\ Len(h.rows) >= 14)
                /\ (IsDf(h) /\ Len(h.rows) \in 1..13) =>
                        \E q \in 1..Len(df_solana.rows) :
                            df_solana.rows[q].slug = p.slug
        /\ \A q1, q2 \in 1..Len(metrics_df.rows) :
            metrics_df.rows[q1].protocol = metrics_df.rows[q2].protocol => q1 = q2

C4_Witness ==
    /\ pc = "done"
    /\ \E p1, p2 \in Slugs :
        /\ IsDf(firstLoad[p1]) /\ Len(firstLoad[p1].rows) = 13
        /\ IsDf(firstLoad[p2]) /\ Len(firstLoad[p2].rows) = 14
        /\ Len(df_solana.rows) = 2
        /\ Len(metrics_df.rows) = 1

\* C5: growth_rate is (value at the latest date) / (value at the earliest
\* date) - 1, in whatever order the fetcher listed the points.
C5_GrowthOverSortedSeries ==
    MetricsReturned =>
        \A j \in 1..Len(metrics_df.rows) :
            LET h == firstLoad[Descriptor(metrics_df.rows[j].protocol).slug]
            IN  metrics_df.rows[j].growth_rate =
                    FSub(FDiv(Num(Latest(h).totalLiquidityUSD),
                              Num(Earliest(h).totalLiquidityUSD)),
                         Num(1))

C5_Witness ==
    /\ MetricsReturned
    /\ \E j \in 1..Len(metrics_df.rows) :
        /\ ListedUnsorted(firstLoad[Descriptor(metrics_df.rows[j].protocol).slug])
        /\ metrics_df.rows[j].growth_rate = Num(2)

ZeroRange(col) ==
    Cardinality({ metrics_df.rows[j][col] : j \in 1..Len(metrics_df.rows) }) = 1

\* C6: in a cohort with zero range in growth_rate (in volatility) every member
\* gets the same defined norm_growth (norm_volatility), never NaN, and every
\* Scored Row has a defined adoption_quality_score.
C6_DegenerateCohortDefined ==
    Scored =>
        /\ ZeroRange("growth_rate") =>
            /\ ZeroRange("norm_growth")
            /\ \A j \in 1..Len(metrics_df.rows) :
                ~IsNaN(metrics_df.rows[j].norm_growth)
        /\ ZeroRange("volatility") =>
            /\ ZeroRange("norm_volatility")
            /\ \A j \in 1..Len(metrics_df.rows) :
                ~IsNaN(metrics_df.rows[j].norm_volatility)
        /\ \A j \in 1..Len(metrics_df.rows) :
            ~IsNaN(metrics_df.rows[j].adoption_quality_score)

\* C7: in a cohort whose growth rates are not all equal, every norm_growth
\* lies in [0,1], a member with the least growth_rate gets 0 and a member
\* with the greatest gets 1.
C7_NormGrowthInUnitRange ==
    (Scored /\ ~ZeroRange("growth_rate")) =>
        \A j \in 1..Len(metrics_df.rows) :
            LET r == metrics_df.rows[j]
            IN  /\ FLe(Num(0), r.norm_growth)
                /\ FLe(r.norm_growth, Num(1))
                /\ (\A q \in 1..Len(metrics_df.rows) :
                        FLe(r.growth_rate, metrics_df.rows[q].growth_rate))
                    => r.norm_growth = Num(0)
                /\ (\A q \in 1..Len(metrics_df.rows) :
                        FLe(metrics_df.rows[q].growth_rate, r.growth_rate))
                    => r.norm_growth = Num(1)

\* C8: at most one HTTP request is issued per slug within a session.
C8_OneRequestPerSlug == ~refetched

LaterSections ==
    {"overview", "tvl_chart", "select", "trend", "aqs", "metrics_body",
     "ranking", "footer"}

\* C9: after an empty snapshot the run stops right after reporting the error,
\* no later section executes and compute_adoption_metrics is not invoked;
\* after a non-empty snapshot the run goes through every later section to
\* the end: it is never stopped or ended by an exception, a step is enabled
\* at every position before the end (inside the metrics loop the position is
\* one of its passes or its return), and at the end every section has run.
C9_EmptySnapshotStops ==
    /\ (SnapshotReturned /\ Empty(df_solana)) =>
        /\ pc \in {"check", "stopped"}
        /\ rendered \cap LaterSections = {}
        /\ ~MetricsReturned
    /\ (SnapshotReturned /\ ~Empty(df_solana)) =>
        /\ pc \notin {"stopped", "crashed"}
        /\ pc \notin {"done", "metrics_loop", "normalize"} => ENABLED Next
        /\ pc = "metrics_loop" => i \in 1..(NumProtocols + 1)
    /\ pc = "stopped" => "error" \in rendered
    /\ pc = "done" =>
        {"overview", "tvl_chart", "select", "trend", "aqs", "footer"}
            \subseteq rendered

C9_Witness ==
    /\ pc = "stopped"
    /\ SnapshotReturned
    /\ Empty(df_solana)
    /\ "error" \in rendered

\* C10: a later call of load_protocol_tvl(slug) or compute_adoption_metrics()
\* returns the rows and columns the first call returned, whatever the callers
\* wrote onto the frames they were handed in between.
C10_LaterCallsUnaltered ==
    /\ (lastCall.slug # "" /\ ~lastCall.raised) =>
            lastCall.value = firstLoad[lastCall.slug]
    /\ pc = "normalize" => metrics_df = firstMetrics

C10_Witness ==
    /\ selectShown
    /\ pc = "normalize"
    /\ ~Empty(metrics_df)
    /\ lastCall.hit
    /\ selected_protocol = df_solana.rows[1].name
    /\ "daily_change" \in df_hist.cols

====
